---- MODULE Spec2Model ----
(***************************************************************************)
(* Model of src/traffic_ticket_optmizer.py: the round-robin pool of cops   *)
(* (class Cops), the capture-probability estimator with its class-level    *)
(* cache, the two greedy optimizers of TrafficPattern and the replay of a  *)
(* driver schedule (get_traffic_simulation).                               *)
(*                                                                         *)
(* Minutes are integers.  Arrival rates are counted in units of            *)
(* 1/RateScale drivers per minute, so that every rate and every revenue    *)
(* opportunity of the modelled profiles is an integer.  Revenues are       *)
(* rationals compared by cross-multiplication.                             *)
(***************************************************************************)
EXTENDS Integers, Sequences, FiniteSets, TLC

\* ------------------------------------------------------------------ bounds
MaxCopId == 3          \* cap on Cop.n_cops (ids handed out) in the pool specification
MaxResize == 2         \* largest n of resize(+n) / resize(-n)
MaxGapSteps == 3       \* elapse amounts are 0, 5, ..., 5 * MaxGapSteps minutes
MaxProfiles == 3       \* longest list of driver profiles handed to TrafficPattern
MaxCops == 4           \* cap on the pool size optimize_on_n_cops may try
NSamples == 3          \* n_samples of p_driver_ticketed (10_000 in the source)
MaxSimProfiles == 2    \* longest list of driver profiles in the replay specification
MaxDrivers == 3        \* longest schedule get_driver_schedule returns
MaxCalls == 3          \* calls of p_driver_ticketed in the estimator specification
MaxArrivals == 4       \* longest sequence of gaps replayed on two pool sizes

\* ------------------------------------------------------- program constants
INF == 999999999
ticketing_time_mins == 15
dollar_cost_per_hour == 300

VARIABLES
    queue,      \* Cops.queue: sequence of [id, mins_until_avail]
    n_cops,     \* Cop.n_cops: class-level counter the ids are taken from
    last,       \* history: the last pool operation, its argument, the queue before it, whether it raised
    cache,      \* Cops.p_driver_ticketed_cache: cache_key -> number of sampled drivers ticketed
    driver_profiles,   \* TrafficPattern.driver_profiles, sorted by mph_over_limit descending
    heap,              \* the Python list objects target_profiles can refer to (object id = index)
    target_profiles,   \* TrafficPattern.target_profiles: a reference into heap
    target_profile,    \* TrafficPattern.target_profile: the aggregate DriverProfile
    pc,                \* position in optimize_on_target_profiles / optimize_on_n_cops
    ret,               \* where optimize_on_target_profiles returns to
    otp_max,           \* max_revenue of optimize_on_target_profiles
    onc_max,           \* max_revenue of optimize_on_n_cops
    prev_target_profiles,  \* local of optimize_on_n_cops: a reference into heap (0: unbound)
    evaluated,         \* history: the (targets, pool size, revenue) triples get_revenue_per_hour has returned
    accepted,          \* history: pool size and value of the target list at the last accepted count
    trials,            \* history: the extensions tried by the current run of optimize_on_target_profiles
    started_from,      \* history: the value of the target list when the current run was called
    drivers,           \* get_traffic_simulation: the list of Driver objects
    sim_i,             \* get_traffic_simulation: index of the driver the for loop takes next
    prev_scheduled_min,  \* get_traffic_simulation: prev_driver.scheduled_min
    sim_hist,          \* history: per replayed driver, the queue before and after its iteration
    est,               \* p_driver_ticketed: the argument and the locals of the call in progress
    returned,          \* history: per (rounded gap, pool size), the first value returned, the sampling runs, whether all values agree
    n_calls,           \* history: number of calls of p_driver_ticketed so far
    args,              \* the arguments a pure function is applied to
    result             \* the value it returned

poolVars == <<queue, n_cops>>
optVars == <<cache, driver_profiles, heap, target_profiles, target_profile, pc, ret,
             otp_max, onc_max, prev_target_profiles, evaluated, accepted, trials, started_from>>
simVars == <<drivers, sim_i, prev_scheduled_min, sim_hist>>
estVars == <<est, returned, n_calls>>
funVars == <<args, result>>
vars == <<queue, n_cops, last, cache, driver_profiles, heap, target_profiles, target_profile,
          pc, ret, otp_max, onc_max, prev_target_profiles, evaluated, accepted, trials, started_from,
          drivers, sim_i, prev_scheduled_min, sim_hist, est, returned, n_calls, args, result>>

Max(a, b) == IF a >= b THEN a ELSE b
Min(a, b) == IF a <= b THEN a ELSE b

Gaps == {5 * g : g \in 0..MaxGapSteps}

\* ------------------------------------------------------------- class Cop
\* Cop(): mins_until_avail = 0, id = the incremented class counter.
Cop(id) == [id |-> id, mins_until_avail |-> 0]

\* [Cop() for _ in range(n)] when Cop.n_cops = c before the comprehension.
NewCops(c, n) == [i \in 1..Max(n, 0) |-> Cop(c + i)]

\* ------------------------------------------------------------ class Cops
\* Python slice start: the index i of q[i:] normalised against len(q).
PySliceStart(len, i) == IF i < 0 THEN Max(len + i, 0) ELSE Min(i, len)

\* del q[start:]
DelFrom(q, start) == SubSeq(q, 1, PySliceStart(Len(q), start))

\* Cops.__iadd__: the queue after self.queue += [Cop() for _ in range(other)]
\* when Cop.n_cops = c before the call.
iadd(q, c, other) == q \o NewCops(c, other)

\* Cops.__init__ / __isub__: the guard that raises ValueError.
ISubRaisesLoose(q, other) == Len(q) - other < 0
ISubRaises(q, other) == Len(q) - other < 1

\* Cops.is_available (IndexError on an empty queue: guarded by the callers).
is_available(q) == q[1].mins_until_avail = 0

\* Cops.elapse_mins: the loop over reversed(self.queue), from index i down.
ElapseFromBackOnly(q, i, mins) ==
    IF i = 0 THEN q
    ELSE IF q[i].mins_until_avail = 0 THEN q
    ELSE [q EXCEPT ![i].mins_until_avail = Max(0, @ - mins)]

RECURSIVE ElapseFrom(_, _, _)
ElapseFrom(q, i, mins) ==
    IF i = 0 THEN q
    ELSE IF q[i].mins_until_avail = 0 THEN q
    ELSE ElapseFrom([q EXCEPT ![i].mins_until_avail = Max(0, @ - mins)], i - 1, mins)

elapse_mins(q, mins) == ElapseFrom(q, Len(q), mins)

\* Cops.issue_ticket: the queue after the front cop is set busy and rotated.
issue_ticketStaysIdle(q) == Append(Tail(q), q[1])
issue_ticket(q) ==
    Append(Tail(q), [q[1] EXCEPT !.mins_until_avail = ticketing_time_mins])

\* The reference behaviour elapse_mins is compared with: decrement every cop.
ElapseAll(q, mins) ==
    [i \in 1..Len(q) |-> [q[i] EXCEPT !.mins_until_avail = Max(0, @ - mins)]]

\* ------------------------------------------------- class DriverProfile
MphChoices == {0, 5, 20}
GapChoices == {20, 40}

\* Every modelled mins_between_drivers divides RateScale: 1/gap drivers per
\* minute is RateScale \div gap rate units.
RateScale == 40

ProfileChoices ==
    {[mph_over_limit |-> m, mins_between_drivers |-> g] : m \in MphChoices, g \in GapChoices}

\* DriverProfile.__init__: the derived attributes.  drivers_per_min is
\* rate / RateScale + eps / INF: eps counts the 1/INF contributions that a
\* DriverProfile() built without arguments carries.
DriverProfile(p) ==
    [drivers_per_min |-> RateScale \div p.mins_between_drivers,
     eps |-> 0,
     revenue_opportunity_per_hour |-> (p.mph_over_limit * 10 * 60) \div p.mins_between_drivers]

\* DriverProfile(): mph_over_limit = 0, mins_between_drivers = INF.
NullProfile ==
    [drivers_per_min |-> 0, eps |-> 1, revenue_opportunity_per_hour |-> 0]

\* DriverProfile.__add__ (the rate-weighted mph_over_limit and
\* dollars_ticketed of the sum are read by no modelled operation).
AddAveraged(a, b) ==
    [drivers_per_min |-> a.drivers_per_min + b.drivers_per_min,
     eps |-> a.eps + b.eps,
     revenue_opportunity_per_hour |->
         (a.drivers_per_min * a.revenue_opportunity_per_hour
            + b.drivers_per_min * b.revenue_opportunity_per_hour)
         \div Max(1, a.drivers_per_min + b.drivers_per_min)]
Add(a, b) ==
    [drivers_per_min |-> a.drivers_per_min + b.drivers_per_min,
     eps |-> a.eps + b.eps,
     revenue_opportunity_per_hour |->
         a.revenue_opportunity_per_hour + b.revenue_opportunity_per_hour]

\* sorted(driver_profiles, key=mph_over_limit, reverse=True): stable.
InsertAsc(p, s) ==
    LET n == Cardinality({i \in 1..Len(s) : s[i].mph_over_limit <= p.mph_over_limit})
    IN SubSeq(s, 1, n) \o <<p>> \o SubSeq(s, n + 1, Len(s))

InsertDesc(p, s) ==
    LET n == Cardinality({i \in 1..Len(s) : s[i].mph_over_limit >= p.mph_over_limit})
    IN SubSeq(s, 1, n) \o <<p>> \o SubSeq(s, n + 1, Len(s))

RECURSIVE SortedAsc(_)
SortedAsc(s) ==
    IF s = <<>> THEN <<>>
    ELSE InsertAsc(s[Len(s)], SortedAsc(SubSeq(s, 1, Len(s) - 1)))

RECURSIVE SortedDesc(_)
SortedDesc(s) ==
    IF s = <<>> THEN <<>>
    ELSE InsertDesc(s[Len(s)], SortedDesc(SubSeq(s, 1, Len(s) - 1)))

\* reduce(lambda x, y: x + y, [driver_profiles[i] for i in idx]), idx non-empty.
RECURSIVE Reduce(_, _)
Reduce(profiles, idx) ==
    IF Len(idx) = 1 THEN DriverProfile(profiles[idx[1]])
    ELSE Add(Reduce(profiles, SubSeq(idx, 1, Len(idx) - 1)),
             DriverProfile(profiles[idx[Len(idx)]]))

\* ------------------------------------------------------ revenue arithmetic
\* A revenue is num/den - e * pnum/pden, den > 0, pden > 0, for one fixed
\* infinitesimal e > 0: the second term is the first-order effect of the
\* 1/INF part of drivers_per_min on the closed form of one cop.
Floor(a) == a.num \div a.den
Ceil(a) == -((-a.num) \div a.den)

MainLess(a, b) ==
    IF b.den = 1 THEN Floor(a) < b.num
    ELSE IF a.den = 1 THEN a.num < Ceil(b)
    ELSE a.num * b.den < b.num * a.den

\* a < b as Python compares the two floats.
RevLessOrEqual(a, b) ==
    \/ MainLess(a, b)
    \/ /\ ~MainLess(b, a)
       /\ a.pnum * b.pden >= b.pnum * a.pden
RevLess(a, b) ==
    \/ MainLess(a, b)
    \/ /\ ~MainLess(b, a)
       /\ a.pnum * b.pden > b.pnum * a.pden

NegINF == [num |-> -INF, den |-> 1, pnum |-> 0, pden |-> 1]

\* ------------------------------------------------ Cops.p_driver_ticketed
\* round(mins_between_drivers, 4) in units of 1/10000 minute; the 1/INF part
\* of the rate moves the gap by less than the rounding step.
RoundedGap(tp) ==
    IF tp.drivers_per_min = 0 THEN INF
    ELSE (2 * RateScale * 10000 + tp.drivers_per_min) \div (2 * tp.drivers_per_min)

cache_key(tp, q) == <<RoundedGap(tp), Len(q)>>

\* The sampling loop: draws[i] is expon.ppf(random()) * mins_between_drivers.
RECURSIVE SampleLoop(_, _, _, _)
SampleLoop(q, draws, i, n_drivers_ticketed) ==
    IF i > Len(draws) THEN [queue |-> q, n_drivers_ticketed |-> n_drivers_ticketed]
    ELSE LET q1 == elapse_mins(q, draws[i])
         IN IF is_available(q1)
            THEN SampleLoop(issue_ticket(q1), draws, i + 1, n_drivers_ticketed + 1)
            ELSE SampleLoop(q1, draws, i + 1, n_drivers_ticketed)

\* Does the call reach the sampling loop?
Samples(tp, q, c) == Len(q) # 1 /\ cache_key(tp, q) \notin DOMAIN c

\* The outcomes of the sampling loop of a call, over all the draws it can
\* consume (a call that does not sample leaves the queue as it is).
SampleOutcomes(tp, q, c) ==
    IF Samples(tp, q, c)
    THEN {SampleLoop(q, draws, 1, 0) : draws \in [1..NSamples -> Gaps]}
    ELSE {[queue |-> q, n_drivers_ticketed |-> 0]}

\* p_driver_ticketed(tp.mins_between_drivers) when its sampling loop, if
\* reached, ends in s: the probability pn/pd, the queue and the cache after
\* the call.
p_driver_ticketed(tp, q, c, s) ==
    IF Len(q) = 1
    THEN [pn |-> RateScale, pd |-> RateScale + ticketing_time_mins * tp.drivers_per_min,
          queue |-> q, cache |-> c]
    ELSE IF cache_key(tp, q) \in DOMAIN c
    THEN [pn |-> c[cache_key(tp, q)], pd |-> NSamples, queue |-> q, cache |-> c]
    ELSE [pn |-> s.n_drivers_ticketed, pd |-> NSamples,
          queue |-> elapse_mins(s.queue, INF),
          cache |-> (cache_key(tp, q) :> s.n_drivers_ticketed) @@ c]

\* Cops.get_cost_per_hour
get_cost_per_hourFree(q) == 0 * Len(q)
get_cost_per_hour(q) == dollar_cost_per_hour * Len(q)

\* TrafficPattern.get_revenue_per_hour, from the result r of p_driver_ticketed.
get_revenue_per_hour(tp, q, r) ==
    [num |-> r.pn * tp.revenue_opportunity_per_hour - get_cost_per_hour(q) * r.pd,
     den |-> r.pd,
     pnum |-> IF Len(q) = 1 THEN tp.eps * tp.revenue_opportunity_per_hour ELSE 0,
     pden |-> IF Len(q) = 1 THEN r.pd * r.pd ELSE 1]

\* ------------------------------------------------- pool specification
NoOp == [op |-> "init", arg |-> 0, pre |-> <<>>, raised |-> FALSE]

\* The replay part of the state before get_traffic_simulation is called.
NoSim ==
    /\ drivers = <<>>
    /\ sim_i = 0
    /\ prev_scheduled_min = 0
    /\ sim_hist = <<>>

\* No call of p_driver_ticketed is in progress.
NoEst == [mins_between_drivers |-> 0, i |-> 0, n_drivers_ticketed |-> 0, pre |-> <<>>]

\* The estimator and pure-function parts of the state when they are not in use.
NoCalls ==
    /\ est = NoEst
    /\ returned = <<>>
    /\ n_calls = 0
    /\ args = <<>>
    /\ result = <<>>

\* The TrafficPattern part of the state before any TrafficPattern exists.
NoPattern ==
    /\ cache = <<>>
    /\ driver_profiles = <<>>
    /\ heap = << <<>> >>
    /\ target_profiles = 1
    /\ target_profile = NullProfile
    /\ pc = "idle"
    /\ ret = "none"
    /\ otp_max = NegINF
    /\ onc_max = NegINF
    /\ prev_target_profiles = 0
    /\ evaluated = {}
    /\ accepted = [n |-> 0, targets |-> <<>>]
    /\ trials = <<>>
    /\ started_from = <<>>
    /\ NoSim

\* Cops(n), n >= 1 (n < 1 raises ValueError and no pool exists).
InitPool ==
    /\ \E n \in 1..MaxResize :
        /\ queue = NewCops(0, n)
        /\ n_cops = n
    /\ last = NoOp
    /\ NoPattern
    /\ NoCalls

\* cops += n
IAdd ==
    \E n \in 0..MaxResize :
        /\ n_cops + n <= MaxCopId
        /\ queue' = iadd(queue, n_cops, n)
        /\ n_cops' = n_cops + n
        /\ last' = [op |-> "iadd", arg |-> n, pre |-> queue, raised |-> FALSE]
        /\ UNCHANGED <<estVars, funVars, optVars, simVars>>

\* cops -= n
ISub ==
    \E n \in 0..MaxResize :
        /\ IF ISubRaises(queue, n)
           THEN queue' = queue
           ELSE queue' = DelFrom(queue, -n)
        /\ last' = [op |-> "isub", arg |-> n, pre |-> queue,
                    raised |-> ISubRaises(queue, n)]
        /\ UNCHANGED <<estVars, funVars, n_cops, optVars, simVars>>

\* cops.elapse_mins(m)
ElapseMins ==
    \E m \in Gaps \cup {INF} :
        /\ queue' = elapse_mins(queue, m)
        /\ last' = [op |-> "elapse", arg |-> m, pre |-> queue, raised |-> FALSE]
        /\ UNCHANGED <<estVars, funVars, n_cops, optVars, simVars>>

\* cops.issue_ticket(), called when cops.is_available()
IssueTicket ==
    /\ Len(queue) > 0
    /\ is_available(queue)
    /\ queue' = issue_ticket(queue)
    /\ last' = [op |-> "issue", arg |-> 0, pre |-> queue, raised |-> FALSE]
    /\ UNCHANGED <<estVars, funVars, n_cops, optVars, simVars>>

NextPool == IAdd \/ ISub \/ ElapseMins \/ IssueTicket

SpecPool == InitPool /\ [][NextPool]_vars

\* -------------------------------------------- optimizer specification
\* TrafficPattern(input) for a non-empty list (an empty one raises
\* ValueError), in a fresh process: Cop.n_cops = 0, empty cache.
Constructed(input) ==
    /\ driver_profiles = SortedDesc(input)
    /\ queue = NewCops(0, 1)
    /\ n_cops = 1
    /\ last = NoOp
    /\ cache = <<>>
    /\ heap = << <<>> >>
    /\ target_profiles = 1
    /\ target_profile = NullProfile
    /\ pc = "idle"
    /\ ret = "none"
    /\ otp_max = NegINF
    /\ onc_max = NegINF
    /\ prev_target_profiles = 0
    /\ evaluated = {}
    /\ accepted = [n |-> 0, targets |-> <<>>]
    /\ trials = <<>>
    /\ started_from = <<>>
    /\ NoSim
    /\ NoCalls

InitOpt ==
    \E input \in UNION {[1..n -> ProfileChoices] : n \in 1..MaxProfiles} :
        Constructed(input)

\* The triple get_revenue_per_hour adds to the history.
Evaluation(rev) == [targets |-> heap[target_profiles], n |-> Len(queue), rev |-> rev]

\* The history of extensions once the revenue rev of the last one is known.
Settled(t, rev) ==
    IF Len(t) > 0 /\ ~t[Len(t)].known
    THEN [t EXCEPT ![Len(t)].after = rev, ![Len(t)].known = TRUE]
    ELSE t

\* Entry of optimize_on_target_profiles: max_revenue = -INF.
EnterOTP(return_to) ==
    /\ pc' = "otp_while"
    /\ ret' = return_to
    /\ otp_max' = NegINF
    /\ trials' = <<>>
    /\ started_from' = heap[target_profiles]

\* trafficPattern.optimize_on_target_profiles()
CallOTP ==
    /\ pc = "idle"
    /\ EnterOTP("done")
    /\ UNCHANGED <<estVars, funVars, poolVars, last, simVars, cache, driver_profiles, heap, target_profiles,
                   target_profile, onc_max, prev_target_profiles, evaluated, accepted>>

\* optimize_on_target_profiles: one test of the while condition and, when it
\* holds, one execution of the body.
OTPLoop ==
    /\ pc = "otp_while"
    /\ \E s \in SampleOutcomes(target_profile, queue, cache) :
        LET r == p_driver_ticketed(target_profile, queue, cache, s)
            rev == get_revenue_per_hour(target_profile, queue, r)
            targets == heap[target_profiles]
            marginal == Len(targets) + 1
        IN /\ queue' = r.queue
           /\ cache' = r.cache
           /\ evaluated' = evaluated \cup {Evaluation(rev)}
           /\ IF RevLess(otp_max, rev) /\ Len(targets) < Len(driver_profiles)
              THEN /\ otp_max' = rev
                   /\ heap' = [heap EXCEPT ![target_profiles] = Append(@, marginal)]
                   /\ target_profile' =
                          Add(target_profile, DriverProfile(driver_profiles[marginal]))
                   /\ trials' = Append(Settled(trials, rev),
                                       [idx |-> marginal, before |-> rev,
                                        after |-> rev, known |-> FALSE])
                   /\ pc' = "otp_while"
              ELSE /\ pc' = "otp_if"
                   /\ trials' = Settled(trials, rev)
                   /\ UNCHANGED <<otp_max, heap, target_profile>>
    /\ UNCHANGED <<estVars, funVars, n_cops, last, simVars, driver_profiles, target_profiles, ret, onc_max,
                   prev_target_profiles, accepted, started_from>>

\* optimize_on_target_profiles: the if after the loop, and the return.
OTPTrim ==
    /\ pc = "otp_if"
    /\ \E s \in SampleOutcomes(target_profile, queue, cache) :
        LET r == p_driver_ticketed(target_profile, queue, cache, s)
            rev == get_revenue_per_hour(target_profile, queue, r)
            targets == heap[target_profiles]
            popped == SubSeq(targets, 1, Len(targets) - 1)
        IN /\ queue' = r.queue
           /\ cache' = r.cache
           /\ evaluated' = evaluated \cup {Evaluation(rev)}
           /\ IF RevLess(rev, otp_max)
              THEN /\ heap' = [heap EXCEPT ![target_profiles] = popped]
                   /\ IF popped = <<>>
                      THEN pc' = "TypeError" /\ UNCHANGED target_profile
                      ELSE /\ target_profile' = Reduce(driver_profiles, popped)
                           /\ pc' = ret
              ELSE /\ pc' = ret
                   /\ UNCHANGED <<heap, target_profile>>
    /\ UNCHANGED <<estVars, funVars, n_cops, last, simVars, driver_profiles, target_profiles, ret, otp_max, onc_max,
                   prev_target_profiles, accepted, trials, started_from>>

\* trafficPattern.optimize_on_n_cops(): the first call of optimize_on_target_profiles.
CallONC ==
    /\ pc = "idle"
    /\ EnterOTP("onc_init")
    /\ UNCHANGED <<estVars, funVars, poolVars, last, simVars, cache, driver_profiles, heap, target_profiles,
                   target_profile, onc_max, prev_target_profiles, evaluated, accepted>>

\* optimize_on_n_cops: max_revenue = -INF.
ONCInit ==
    /\ pc = "onc_init"
    /\ onc_max' = NegINF
    /\ pc' = "onc_while"
    /\ UNCHANGED <<estVars, funVars, poolVars, last, simVars, cache, driver_profiles, heap, target_profiles,
                   target_profile, ret, otp_max, prev_target_profiles, evaluated,
                   accepted, trials, started_from>>

\* optimize_on_n_cops: one test of the while condition and, when it holds,
\* the body up to the call of optimize_on_target_profiles.
ONCLoop ==
    /\ pc = "onc_while"
    /\ \E s \in SampleOutcomes(target_profile, queue, cache) :
        LET r == p_driver_ticketed(target_profile, queue, cache, s)
            rev == get_revenue_per_hour(target_profile, queue, r)
        IN /\ cache' = r.cache
           /\ evaluated' = evaluated \cup {Evaluation(rev)}
           /\ IF ~RevLess(rev, onc_max)
              THEN /\ Len(queue) < MaxCops
                   /\ onc_max' = rev
                   /\ prev_target_profiles' = target_profiles
                   /\ accepted' = [n |-> Len(queue), targets |-> heap[target_profiles]]
                   /\ queue' = iadd(r.queue, n_cops, 1)
                   /\ n_cops' = n_cops + 1
                   /\ EnterOTP("onc_while")
              ELSE /\ pc' = "onc_rollback"
                   /\ queue' = r.queue
                   /\ UNCHANGED <<n_cops, onc_max, prev_target_profiles, accepted, ret,
                                  otp_max, trials, started_from>>
    /\ UNCHANGED <<estVars, funVars, last, simVars, driver_profiles, heap, target_profiles, target_profile>>

\* optimize_on_n_cops: the three statements after the loop.
ONCRollback ==
    /\ pc = "onc_rollback"
    /\ IF ISubRaises(queue, 1)
       THEN pc' = "ValueError" /\ UNCHANGED <<queue, target_profiles, target_profile>>
       ELSE /\ queue' = DelFrom(queue, -1)
            /\ IF prev_target_profiles = 0
               THEN pc' = "UnboundLocalError" /\ UNCHANGED <<target_profiles, target_profile>>
               ELSE /\ target_profiles' = prev_target_profiles
                    /\ IF heap[prev_target_profiles] = <<>>
                       THEN pc' = "TypeError" /\ UNCHANGED target_profile
                       ELSE /\ target_profile' =
                                   Reduce(driver_profiles, heap[prev_target_profiles])
                            /\ pc' = "done"
    /\ UNCHANGED <<estVars, funVars, n_cops, last, simVars, cache, driver_profiles, heap, ret, otp_max, onc_max,
                   prev_target_profiles, evaluated, accepted, trials, started_from>>

NextOpt == CallOTP \/ OTPLoop \/ OTPTrim \/ CallONC \/ ONCInit \/ ONCLoop \/ ONCRollback

SpecOpt == InitOpt /\ [][NextOpt]_vars

\* ------------------------------------------------ replay specification
SimProfileChoices ==
    {[mph_over_limit |-> 20, mins_between_drivers |-> 40],
     [mph_over_limit |-> 5, mins_between_drivers |-> 20]}

\* Gaps between consecutive scheduled arrivals (get_driver_schedule).
SimGaps == {0, 5, 10}

\* A TrafficPattern over a short list of profiles.
InitSim ==
    \E input \in UNION {[1..n -> SimProfileChoices] : n \in 1..MaxSimProfiles} :
        Constructed(input)

\* ticketing_cop of Driver.__init__: None.
NoCop == [id |-> 0, mins_until_avail |-> 0]

\* Driver(profile, scheduled_min); profile is an index into driver_profiles
\* (list membership of DriverProfile objects is by identity).
Driver(profile, scheduled_min) ==
    [profile |-> profile, scheduled_min |-> scheduled_min,
     got_ticket |-> FALSE, ticketing_cop |-> NoCop]

\* get_driver_schedule: the cumulative sum of the first i gaps.
RECURSIVE Cumulative(_, _)
Cumulative(gaps, i) == IF i = 0 THEN 0 ELSE Cumulative(gaps, i - 1) + gaps[i]

\* The profiles self.target_profiles holds.
TargetSet == {heap[target_profiles][m] : m \in 1..Len(heap[target_profiles])}

\* elapsed_mins of the for loop of get_traffic_simulation.
SimElapsedFromStart(driver, prev) == driver.scheduled_min
SimElapsed(driver, prev) == driver.scheduled_min - prev

\* issue_ticket: deepcopy(ticketing_cop), taken after the countdown is set.
TicketingCopBeforeCountdown(q) == q[1]
TicketingCop(q) == [q[1] EXCEPT !.mins_until_avail = ticketing_time_mins]

\* trafficPattern.cops += n, by the caller, after the optimization if there
\* is one and before the replay (pc = "sized": the caller has sized the pool).
SimResize ==
    /\ pc \in {"idle", "done"}
    /\ \E n \in 1..MaxResize :
        /\ n_cops + n <= MaxCopId
        /\ queue' = iadd(queue, n_cops, n)
        /\ n_cops' = n_cops + n
    /\ pc' = "sized"
    /\ UNCHANGED <<estVars, funVars, last, cache, driver_profiles, heap, target_profiles, target_profile,
                   ret, otp_max, onc_max, prev_target_profiles, evaluated, accepted,
                   trials, started_from, simVars>>

\* get_traffic_simulation: the schedule, the profiles and the drivers.
CallSim ==
    /\ pc \in {"idle", "done", "sized"}
    /\ \E len \in 0..MaxDrivers :
       \E profiles \in [1..len -> 1..Len(driver_profiles)] :
       \E gaps \in [1..len -> SimGaps] :
           drivers' = [i \in 1..len |-> Driver(profiles[i], Cumulative(gaps, i))]
    /\ sim_i' = 1
    /\ prev_scheduled_min' = 0
    /\ sim_hist' = <<>>
    /\ pc' = "sim_loop"
    /\ UNCHANGED <<estVars, funVars, poolVars, last, cache, driver_profiles, heap, target_profiles,
                   target_profile, ret, otp_max, onc_max, prev_target_profiles,
                   evaluated, accepted, trials, started_from>>

\* get_traffic_simulation: one iteration of the for loop.
SimStep ==
    /\ pc = "sim_loop"
    /\ sim_i <= Len(drivers)
    /\ LET driver == drivers[sim_i]
           elapsed_mins == SimElapsed(driver, prev_scheduled_min)
           q1 == elapse_mins(queue, elapsed_mins)
           ticket == driver.profile \in TargetSet /\ is_available(q1)
       IN /\ queue' = IF ticket THEN issue_ticket(q1) ELSE q1
          /\ drivers' = IF ticket
                        THEN [drivers EXCEPT ![sim_i].got_ticket = TRUE,
                                             ![sim_i].ticketing_cop = TicketingCop(q1)]
                        ELSE drivers
          /\ prev_scheduled_min' = driver.scheduled_min
          /\ sim_hist' = Append(sim_hist, [pre |-> queue, post |-> queue'])
    /\ sim_i' = sim_i + 1
    /\ UNCHANGED <<estVars, funVars, n_cops, last, cache, driver_profiles, heap, target_profiles,
                   target_profile, pc, ret, otp_max, onc_max, prev_target_profiles,
                   evaluated, accepted, trials, started_from>>

\* get_traffic_simulation: cops.elapse_mins(INF) and the return.
SimReturnWithoutFlush ==
    /\ pc = "sim_loop"
    /\ sim_i > Len(drivers)
    /\ pc' = "sim_done"
    /\ UNCHANGED <<estVars, funVars, poolVars, last, cache, driver_profiles, heap,
                   target_profiles, target_profile, ret, otp_max, onc_max,
                   prev_target_profiles, evaluated, accepted, trials, started_from, simVars>>

SimFlush ==
    /\ pc = "sim_loop"
    /\ sim_i > Len(drivers)
    /\ queue' = elapse_mins(queue, INF)
    /\ pc' = "sim_done"
    /\ UNCHANGED <<estVars, funVars, n_cops, last, cache, driver_profiles, heap, target_profiles,
                   target_profile, ret, otp_max, onc_max, prev_target_profiles,
                   evaluated, accepted, trials, started_from, simVars>>

NextSim == CallOTP \/ OTPLoop \/ OTPTrim \/ SimResize \/ CallSim \/ SimStep \/ SimFlush

SpecSim == InitSim /\ [][NextSim]_vars

\* --------------------------------------------- estimator specification
\* p_driver_ticketed step by step, on the pool of a TrafficPattern that is
\* resized one cop at a time as optimize_on_n_cops does.  pc = "estimated"
\* once the caller has used the estimator or resized the pool for it.  The argument
\* mins_between_drivers is counted in units of 1/GapUnit minute, ten times
\* finer than the four decimals the cache key keeps.
GapUnit == 100000

EstGapChoices == {0, 20 * GapUnit, 20 * GapUnit + 1, 40 * GapUnit}

\* round(mins_between_drivers, 4), in units of 1/10000 minute.
Round4(mins_between_drivers) == (mins_between_drivers + 5) \div 10

\* The key the claims speak of: rounded gap and pool size.
EstKey(mins_between_drivers, q) == <<Round4(mins_between_drivers), Len(q)>>

\* expon.ppf(random()) * mins_between_drivers, in minutes: any amount that is
\* not negative, and 0 when the argument is 0.
EstDrawsOfAnySign(mins_between_drivers) ==
    IF mins_between_drivers = 0 THEN {0} ELSE Gaps \cup {-5}
EstDraws(mins_between_drivers) == IF mins_between_drivers = 0 THEN {0} ELSE Gaps

\* Cops.p_driver_ticketed_cache[cache_key] = p_driver_ticketed
CacheStoreNothing(c, key, n_drivers_ticketed) == c
CacheStore(c, key, n_drivers_ticketed) == (key :> n_drivers_ticketed) @@ c

\* The history once a call with key `key` has returned pn/pd.
Returned(key, pn, pd, sampled) ==
    IF key \in DOMAIN returned
    THEN [returned EXCEPT ![key].calls = @ + 1,
                          ![key].runs = @ + (IF sampled THEN 1 ELSE 0),
                          ![key].same = @ /\ returned[key].pn = pn /\ returned[key].pd = pd]
    ELSE (key :> [pn |-> pn, pd |-> pd, calls |-> 1,
                  runs |-> IF sampled THEN 1 ELSE 0, same |-> TRUE])
             @@ returned

\* What the last call of p_driver_ticketed was given and what it returned.
LastCall(mins_between_drivers, pre, pn, pd, sampled) ==
    [op |-> "p_driver_ticketed", arg |-> mins_between_drivers, pre |-> pre,
     raised |-> FALSE, pn |-> pn, pd |-> pd, sampled |-> sampled, cache |-> cache]

InitEst ==
    /\ queue = NewCops(0, 1)
    /\ n_cops = 1
    /\ last = NoOp
    /\ NoPattern
    /\ NoCalls

\* p_driver_ticketed(m): the closed form of one cop, the cache lookup, or the
\* entry into the sampling loop.
EstCall ==
    /\ pc \in {"idle", "done", "sized", "estimated"}
    /\ n_calls < MaxCalls
    /\ n_calls' = n_calls + 1
    /\ \E m \in EstGapChoices :
        LET key == EstKey(m, queue)
        IN IF Len(queue) = 1
           THEN /\ last' = LastCall(m, queue, m, m + ticketing_time_mins * GapUnit, FALSE)
                /\ returned' = Returned(key, m, m + ticketing_time_mins * GapUnit, FALSE)
                /\ pc' = "estimated"
                /\ UNCHANGED est
           ELSE IF key \in DOMAIN cache
           THEN /\ last' = LastCall(m, queue, cache[key], NSamples, FALSE)
                /\ returned' = Returned(key, cache[key], NSamples, FALSE)
                /\ pc' = "estimated"
                /\ UNCHANGED est
           ELSE /\ est' = [mins_between_drivers |-> m, i |-> 0,
                           n_drivers_ticketed |-> 0, pre |-> queue]
                /\ pc' = "est_loop"
                /\ UNCHANGED <<last, returned>>
    /\ UNCHANGED <<poolVars, funVars, simVars, cache, driver_profiles, heap, target_profiles,
                   target_profile, ret, otp_max, onc_max, prev_target_profiles,
                   evaluated, accepted, trials, started_from>>

\* One iteration of the sampling loop.
EstSample ==
    /\ pc = "est_loop"
    /\ est.i < NSamples
    /\ \E draw \in EstDraws(est.mins_between_drivers) :
        LET q1 == elapse_mins(queue, draw)
        IN IF is_available(q1)
           THEN /\ queue' = issue_ticket(q1)
                /\ est' = [est EXCEPT !.i = @ + 1, !.n_drivers_ticketed = @ + 1]
           ELSE /\ queue' = q1
                /\ est' = [est EXCEPT !.i = @ + 1]
    /\ UNCHANGED <<n_cops, last, returned, n_calls, funVars, simVars, optVars>>

\* After the loop: elapse_mins(INF), the cache entry and the return.
EstReturn ==
    /\ pc = "est_loop"
    /\ est.i = NSamples
    /\ LET key == EstKey(est.mins_between_drivers, queue)
       IN /\ queue' = elapse_mins(queue, INF)
          /\ cache' = CacheStore(cache, key, est.n_drivers_ticketed)
          /\ returned' = Returned(key, est.n_drivers_ticketed, NSamples, TRUE)
          /\ last' = [LastCall(est.mins_between_drivers, est.pre,
                               est.n_drivers_ticketed, NSamples, TRUE)
                         EXCEPT !.cache = cache]
    /\ est' = NoEst
    /\ pc' = "estimated"
    /\ UNCHANGED <<n_cops, n_calls, funVars, simVars, driver_profiles, heap, target_profiles,
                   target_profile, ret, otp_max, onc_max, prev_target_profiles,
                   evaluated, accepted, trials, started_from>>

\* self.cops += 1 of optimize_on_n_cops.
EstGrow ==
    /\ pc \in {"idle", "estimated"}
    /\ n_cops + 1 <= MaxCopId
    /\ queue' = iadd(queue, n_cops, 1)
    /\ n_cops' = n_cops + 1
    /\ last' = [op |-> "iadd", arg |-> 1, pre |-> queue, raised |-> FALSE]
    /\ pc' = "estimated"
    /\ UNCHANGED <<estVars, funVars, simVars, cache, driver_profiles, heap, target_profiles,
                   target_profile, ret, otp_max, onc_max, prev_target_profiles,
                   evaluated, accepted, trials, started_from>>

\* self.cops -= 1 of optimize_on_n_cops.
EstShrink ==
    /\ pc \in {"idle", "estimated"}
    /\ IF ISubRaises(queue, 1)
       THEN queue' = queue
       ELSE queue' = DelFrom(queue, -1)
    /\ last' = [op |-> "isub", arg |-> 1, pre |-> queue, raised |-> ISubRaises(queue, 1)]
    /\ pc' = "estimated"
    /\ UNCHANGED <<n_cops, estVars, funVars, simVars, cache, driver_profiles, heap,
                   target_profiles, target_profile, ret, otp_max, onc_max,
                   prev_target_profiles, evaluated, accepted, trials, started_from>>

NextEst == EstCall \/ EstSample \/ EstReturn \/ EstGrow \/ EstShrink

SpecEst == InitEst /\ [][NextEst]_vars

\* ------------------------------------------- DriverProfile.__add__ alone
\* Three DriverProfile objects, summed in the three orders; args holds the
\* objects, result the sums made so far and the objects as they were built.
AddChoices == {DriverProfile(p) : p \in ProfileChoices} \cup {NullProfile}

InitAdd ==
    /\ queue = NewCops(0, 1)
    /\ n_cops = 1
    /\ last = NoOp
    /\ NoPattern
    /\ est = NoEst
    /\ returned = <<>>
    /\ n_calls = 0
    /\ args \in [1..3 -> AddChoices]
    /\ result = [built |-> args, sums |-> <<>>]

\* x + y followed by + z, or z + (x + y): __add__ assigns to new_profile
\* only, so the operands are afterwards what they were.
AddStep(name, sum) ==
    /\ name \notin DOMAIN result.sums
    /\ result' = [result EXCEPT !.sums = (name :> sum) @@ @]
    /\ args' = args
    /\ UNCHANGED <<poolVars, last, optVars, simVars, estVars>>

\* (A + B) + C
AddAB_C == AddStep("(A+B)+C", Add(Add(args[1], args[2]), args[3]))

\* A + (B + C)
AddA_BC == AddStep("A+(B+C)", Add(args[1], Add(args[2], args[3])))

\* B + (A + C)
AddB_AC == AddStep("B+(A+C)", Add(args[2], Add(args[1], args[3])))

NextAdd == AddAB_C \/ AddA_BC \/ AddB_AC

SpecAdd == InitAdd /\ [][NextAdd]_vars

\* ------------------------------- the sampling loop on two pool sizes
\* One sequence of gaps (the draws of the sampling loop, made once) run
\* through the loop of p_driver_ticketed on an idle pool of k cops and on an
\* idle pool of k + 1 cops.
InitCapture ==
    /\ queue = NewCops(0, 1)
    /\ n_cops = 1
    /\ last = NoOp
    /\ NoPattern
    /\ est = NoEst
    /\ returned = <<>>
    /\ n_calls = 0
    /\ \E len \in 1..MaxArrivals : \E draws \in [1..len -> Gaps] :
       \E k \in 1..(MaxCopId - 1) :
           args = [draws |-> draws, k |-> k]
    /\ result = <<>>

\* The loop of lines 165-170 on Cops(n), n = k or k + 1.
CaptureOn(n) ==
    /\ n \notin DOMAIN result
    /\ result' = (n :> SampleLoop(NewCops(0, n), args.draws, 1, 0)) @@ result
    /\ UNCHANGED <<args, poolVars, last, optVars, simVars, estVars>>

CaptureK == CaptureOn(args.k)

CaptureK1 == CaptureOn(args.k + 1)

NextCapture == CaptureK \/ CaptureK1

SpecCapture == InitCapture /\ [][NextCapture]_vars

\* ------------------------------------------- the pool through a session
\* One TrafficPattern through what its callers do with the pool: the two
\* optimizers, a resize, then either a replay or estimator calls (which the
\* model shows step by step).  A replay after estimator calls starts from
\* the pool states the estimator returns with.
NextLife ==
    \/ CallOTP \/ OTPLoop \/ OTPTrim
    \/ CallONC \/ ONCInit \/ ONCLoop \/ ONCRollback
    \/ SimResize \/ CallSim \/ SimStep \/ SimFlush
    \/ EstCall \/ EstSample \/ EstReturn

\* TrafficPattern([DriverProfile(5, 20), DriverProfile(20, 20)])
InitLife ==
    Constructed(<<[mph_over_limit |-> 5, mins_between_drivers |-> 20],
                  [mph_over_limit |-> 20, mins_between_drivers |-> 20]>>)

SpecLife == InitLife /\ [][NextLife]_vars

\* ------------------------------------------------------------------ claims

\* C1: after any sequence of resize(+n) and resize(-n), n >= 0, the queue
\* holds at least one server and every successful resize(-n) has removed
\* exactly n servers from the back.
C1_AtLeastOneServer ==
    /\ Len(queue) >= 1
    /\ (last.op = "isub" /\ ~last.raised) =>
           queue = SubSeq(last.pre, 1, Len(last.pre) - last.arg)

\* C2: a resize(-n) that would leave fewer than one server raises, and the
\* queue (servers, order, countdowns) is what it was before the call.
C2_RejectedResizeKeepsQueue ==
    (last.op = "isub" /\ Len(last.pre) - last.arg < 1) =>
        (last.raised /\ queue = last.pre)

C2_Witness ==
    /\ last.op = "isub"
    /\ last.raised
    /\ Len(last.pre) >= 1
    /\ last.arg >= 1
    /\ \E i \in 1..Len(queue) : queue[i].mins_until_avail > 0

\* C3: in every reachable pool state, elapse_mins leaves every countdown
\* equal to the unconditional decrement of all servers, floored at 0.
C3_ElapseEqualsDecrementAll ==
    last.op = "elapse" => queue = ElapseAll(last.pre, last.arg)

\* The revenues get_revenue_per_hour can return in the current state.
RevenuesNow ==
    {get_revenue_per_hour(target_profile, queue,
                          p_driver_ticketed(target_profile, queue, cache, s)) :
        s \in SampleOutcomes(target_profile, queue, cache)}

\* optimize_on_n_cops has returned.
ONCReturned == pc = "done" /\ accepted.n > 0

\* No run of optimize_on_target_profiles is in progress.
OTPReturned == pc \in {"onc_init", "onc_while", "onc_rollback", "done"}

\* C4: when optimize_on_n_cops has stopped at the first strictly lower
\* revenue, the pool size is the last accepted count and the target list and
\* its aggregate are those in force when that count was accepted.
C4_RollbackRestoresAccepted ==
    ONCReturned =>
        /\ Len(queue) = accepted.n
        /\ heap[target_profiles] = accepted.targets
        /\ target_profile = Reduce(driver_profiles, accepted.targets)

\* C5: after optimize_on_n_cops returns, the revenue of the resulting policy
\* is at least every revenue evaluated during the walk.
C5_FinalRevenueIsMaximal ==
    ONCReturned =>
        \A rev \in RevenuesNow : \A e \in evaluated : ~RevLess(rev, e.rev)

\* C6: in every state during and after the two optimizers, the target list
\* is a prefix of the profiles sorted by descending severity: it holds no
\* profile while omitting a more severe one.
C6_TargetsArePrefix ==
    LET t == heap[target_profiles]
    IN /\ Len(t) <= Len(driver_profiles)
       /\ \A i \in 1..Len(t) : t[i] = i
       /\ \A i \in 1..Len(t) : \A j \in 1..Len(driver_profiles) :
              driver_profiles[j].mph_over_limit > driver_profiles[t[i]].mph_over_limit
                  => \E m \in 1..Len(t) : t[m] = j

C6_Witness ==
    /\ ONCReturned
    /\ Len(heap[target_profiles]) >= 1
    /\ Len(heap[target_profiles]) < Len(driver_profiles)
    /\ driver_profiles[1].mph_over_limit
           > driver_profiles[Len(driver_profiles)].mph_over_limit

\* C7: once a run of optimize_on_target_profiles has returned, every
\* extension it tried after the most severe profile is in the target list
\* if and only if it strictly increased the revenue.
C7_KeptIffStrictlyIncreases ==
    OTPReturned =>
        \A i \in 1..Len(trials) :
            trials[i].idx >= 2 =>
                (trials[i].idx <= Len(heap[target_profiles])
                     <=> RevLess(trials[i].before, trials[i].after))

\* C8: every run of optimize_on_target_profiles starts from the target list
\* that holds the most severe profile only (the first run reaches it from
\* the empty list of the constructor).
C8_RunStartsFromMostSevere ==
    Len(started_from) <= 1

\* The replay has been called.
InReplay == pc \in {"sim_loop", "sim_done"}

\* Scheduled time of the arrival before driver i (0 before the first).
ScheduledBefore(i) == IF i = 1 THEN 0 ELSE drivers[i - 1].scheduled_min

\* C9: arrivals are replayed in scheduled order; an arrival is ticketed if
\* and only if its profile is targeted and the front countdown is 0 once the
\* time since the previous arrival has gone by; an arrival that is not
\* ticketed keeps got_ticket = False and ticketing_cop = None and leaves the
\* queue as the elapsed time left it.
C9_TicketedIffTargetAndFrontFree ==
    InReplay =>
        /\ Len(sim_hist) = sim_i - 1
        /\ \A i \in 1..Len(drivers) :
               /\ drivers[i].scheduled_min >= ScheduledBefore(i)
               /\ IF i < sim_i
                  THEN LET after == ElapseAll(sim_hist[i].pre,
                                              drivers[i].scheduled_min - ScheduledBefore(i))
                       IN /\ drivers[i].got_ticket <=>
                                 (/\ drivers[i].profile \in TargetSet
                                  /\ after[1].mins_until_avail = 0)
                          /\ ~drivers[i].got_ticket =>
                                 (/\ drivers[i].ticketing_cop = NoCop
                                  /\ sim_hist[i].post = after)
                  ELSE ~drivers[i].got_ticket /\ drivers[i].ticketing_cop = NoCop

C9_Witness ==
    /\ pc = "sim_done"
    /\ \E i, j, k \in 1..Len(drivers) :
          /\ drivers[i].got_ticket
          /\ drivers[j].profile \in TargetSet /\ ~drivers[j].got_ticket
          /\ drivers[k].profile \notin TargetSet

\* C10: in a replay from an idle pool of k servers, at most k of the
\* arrivals scheduled within any interval shorter than ticketing_time_mins
\* are ticketed; with one server, of two targeted arrivals 5 minutes apart
\* the second is not ticketed.
C10_AtMostPoolSizeTicketsPerWindow ==
    InReplay =>
        \A i \in 1..Len(drivers) :
            Cardinality({j \in 1..Len(drivers) :
                            /\ drivers[j].got_ticket
                            /\ drivers[j].scheduled_min >= drivers[i].scheduled_min
                            /\ drivers[j].scheduled_min
                                   < drivers[i].scheduled_min + ticketing_time_mins})
                <= Len(queue)

C10_Witness ==
    /\ pc = "sim_done"
    /\ Len(queue) = 1
    /\ \E i \in 1..(Len(drivers) - 1) :
          /\ drivers[i].profile \in TargetSet
          /\ drivers[i + 1].profile \in TargetSet
          /\ drivers[i + 1].scheduled_min - drivers[i].scheduled_min = 5
          /\ drivers[i].got_ticket
          /\ drivers[i].ticketing_cop.mins_until_avail = ticketing_time_mins
          /\ ~drivers[i + 1].got_ticket

\* The ids of the servers of q, front to back.
Ids(q) == [j \in 1..Len(q) |-> q[j].id]

\* C11: in every step of a replay, a driver that becomes ticketed gets a
\* snapshot carrying the id of the front server and the countdown
\* ticketing_time_mins, that server is then the last of the queue with the
\* same countdown, and the queue is rotated by one; a driver already
\* ticketed keeps its flag and its snapshot whatever the pool does later.
C11_SnapshotWrittenOnce ==
    [][pc = "sim_loop" =>
          \A i \in 1..Len(drivers) :
              /\ drivers[i].got_ticket => drivers'[i] = drivers[i]
              /\ (~drivers[i].got_ticket /\ drivers'[i].got_ticket) =>
                     /\ drivers'[i].ticketing_cop =
                            [id |-> queue[1].id, mins_until_avail |-> ticketing_time_mins]
                     /\ queue'[Len(queue')] = drivers'[i].ticketing_cop
                     /\ Ids(queue') = Tail(Ids(queue)) \o <<queue[1].id>>]_vars

\* Two drivers ticketed by the same server, whose countdown has run out
\* since: both snapshots still show the countdown of the issuance.
C11_Witness ==
    /\ pc = "sim_done"
    /\ \E i, j \in 1..Len(drivers) :
          /\ i < j
          /\ drivers[i].got_ticket /\ drivers[j].got_ticket
          /\ drivers[i].ticketing_cop.id = drivers[j].ticketing_cop.id
          /\ drivers[i].ticketing_cop.mins_until_avail = ticketing_time_mins
          /\ \E c \in 1..Len(queue) :
                 /\ queue[c].id = drivers[i].ticketing_cop.id
                 /\ queue[c].mins_until_avail = 0

\* The last call of p_driver_ticketed was made with one cop: it returned
\* gap / (gap + ticketing_time_mins) of its own argument, without sampling
\* and without touching the pool or the cache.
OneCopClosedForm ==
    (last.op = "p_driver_ticketed" /\ Len(last.pre) = 1) =>
        /\ ~last.sampled
        /\ last.pn = last.arg
        /\ last.pd = last.arg + ticketing_time_mins * GapUnit
        /\ queue = last.pre
        /\ cache = last.cache

C14_CaptureNonDecreasingInCops ==
    (args.k \in DOMAIN result /\ args.k + 1 \in DOMAIN result) =>
        result[args.k + 1].n_drivers_ticketed >= result[args.k].n_drivers_ticketed

\* A sequence on which the larger pool tickets strictly more, and still not
\* every driver.
C14_Witness ==
    /\ args.k \in DOMAIN result
    /\ args.k + 1 \in DOMAIN result
    /\ args.k >= 2
    /\ result[args.k + 1].n_drivers_ticketed > result[args.k].n_drivers_ticketed
    /\ result[args.k + 1].n_drivers_ticketed < Len(args.draws)

\* The walk of optimize_on_n_cops never needs a pool larger than MaxCops:
\* at that size every revenue it can evaluate is strictly lower.
WalkWithinMaxCops ==
    (pc = "onc_while" /\ Len(queue) >= MaxCops) =>
        \A rev \in RevenuesNow : RevLess(rev, onc_max)

\* The exceptions the two optimizers can end in.
Raised == pc \in {"TypeError", "ValueError", "UnboundLocalError"}

\* C15: for every non-empty list of profiles the optimizers raise nothing,
\* and when optimize_on_n_cops returns there is at least one target profile,
\* the most severe profile is targeted and the pool holds at least one cop.
C15_ReturnsNonEmptyPolicy ==
    /\ ~Raised
    /\ ONCReturned =>
           LET t == heap[target_profiles]
           IN /\ Len(t) >= 1
              /\ \E m \in 1..Len(t) :
                     \A j \in 1..Len(driver_profiles) :
                         driver_profiles[t[m]].mph_over_limit
                             >= driver_profiles[j].mph_over_limit
              /\ Len(queue) >= 1

\* optimize_on_n_cops has returned although no evaluation of the walk, over
\* profiles that are fined, gave a positive revenue.
C15_Witness ==
    /\ ONCReturned
    /\ Len(driver_profiles) >= 2
    /\ \A j \in 1..Len(driver_profiles) : driver_profiles[j].mph_over_limit > 0
    /\ \A e \in evaluated : e.rev.num <= 0
    /\ \A rev \in RevenuesNow : rev.num <= 0

\* C16: a call of p_driver_ticketed with a gap <= 0 or on a pool of fewer
\* than one cop raises, and leaves the pool and the cache as they were.
C16_InvalidArgumentRaises ==
    (/\ last.op = "p_driver_ticketed"
     /\ (last.arg <= 0 \/ Len(last.pre) < 1)) =>
        /\ last.raised
        /\ queue = last.pre
        /\ cache = last.cache

\* An optimizer is between its call and its return.
Running == pc \in {"otp_while", "otp_if", "onc_init", "onc_while", "onc_rollback"}

\* total_profile.revenue_opportunity_per_hour: the revenue opportunity of
\* the first i profiles together.
RECURSIVE SumOpportunity(_)
SumOpportunity(i) ==
    IF i = 0 THEN 0
    ELSE DriverProfile(driver_profiles[i]).revenue_opportunity_per_hour + SumOpportunity(i - 1)

TotalOpportunity == SumOpportunity(Len(driver_profiles))

\* No pool larger than this is ever tried: a count n is accepted only with a
\* revenue of at least the -dollar_cost_per_hour a single cop guarantees,
\* and n cops earn at most TotalOpportunity - n * dollar_cost_per_hour.
PoolBound == TotalOpportunity \div dollar_cost_per_hour + 2

\* The variant of the two loops: the pool sizes left to try, then the
\* position within the work at one pool size, then the profiles left to
\* append.
Rank ==
    IF pc = "done" THEN 0
    ELSE IF pc = "onc_rollback" THEN 1
    ELSE 2 + (PoolBound - Len(queue)) * (Len(driver_profiles) + 5)
           + (CASE pc = "onc_while" -> 0
                [] pc = "onc_init" -> 1
                [] pc = "otp_if" -> 2
                [] OTHER -> 3 + Len(driver_profiles) - Len(heap[target_profiles]))

\* C17: every step of a running optimizer lowers a variant that never goes
\* below 0, so the pool is incremented finitely often and the calls return;
\* the walk leaves its loop only on a strictly lower revenue; a run of
\* optimize_on_target_profiles appends each profile at most once.
C17_OptimizeOnNCopsTerminates ==
    [][Running =>
          /\ Rank' < Rank
          /\ Rank' >= 0
          /\ ~Raised'
          /\ WalkWithinMaxCops
          /\ pc' = "onc_rollback" => \E rev \in RevenuesNow : RevLess(rev, onc_max)
          /\ Len(trials') <= Len(driver_profiles)
          /\ \A i, j \in 1..Len(trials') : i # j => trials'[i].idx # trials'[j].idx]_vars

\* optimize_on_n_cops has returned after more than one increment of the
\* pool, the last run of optimize_on_target_profiles having extended the
\* target list.
C17_Witness ==
    /\ ONCReturned
    /\ accepted.n >= 2
    /\ Len(queue) < MaxCops
    /\ Len(trials) >= 1
    /\ Len(driver_profiles) >= 2

\* Every cop of q is available.
AllIdle(q) == \A c \in 1..Len(q) : q[c].mins_until_avail = 0

\* The cops of q, whatever their order.
IdSet(q) == {q[c].id : c \in 1..Len(q)}

\* The queue get_traffic_simulation was called with.
QueueAtCallSim == IF sim_hist = <<>> THEN queue ELSE sim_hist[1].pre

\* C18: when get_traffic_simulation has returned, and when a call of
\* p_driver_ticketed that sampled has returned, every countdown is 0 and the
\* pool holds the cops it held at the call; the pool is idle whenever a
\* caller can start a replay, an estimate or a resize.
C18_PoolIdleAfterReplayAndEstimate ==
    /\ pc = "sim_done" =>
           /\ AllIdle(queue)
           /\ Len(queue) = Len(QueueAtCallSim)
           /\ IdSet(queue) = IdSet(QueueAtCallSim)
    /\ (pc = "estimated" /\ last.op = "p_driver_ticketed" /\ last.sampled) =>
           /\ AllIdle(queue)
           /\ Len(queue) = Len(last.pre)
           /\ IdSet(queue) = IdSet(last.pre)
    /\ pc \in {"idle", "done", "sized", "estimated"} => AllIdle(queue)

\* A replay on more than one cop has returned; it left the loop with a cop
\* still busy and with the queue rotated.
C18_Witness ==
    /\ pc = "sim_done"
    /\ Len(queue) >= 2
    /\ sim_hist # <<>>
    /\ ~AllIdle(sim_hist[Len(sim_hist)].post)
    /\ Ids(queue) # Ids(QueueAtCallSim)

\* The countdowns of q never decrease from the front to the back.
NonDecreasing(q) ==
    \A c \in 1..(Len(q) - 1) : q[c].mins_until_avail <= q[c + 1].mins_until_avail

\* No cop of q is available.
AllBusy(q) == \A c \in 1..Len(q) : q[c].mins_until_avail > 0

\* C19: in every state of the pool between the operations of the
\* estimator, the optimizers and the replay, and after any elapse_mins from
\* such a state, the countdowns are non-decreasing front to back, so a busy
\* front cop means every cop is busy; a replayed driver of a targeted
\* profile is left unticketed only with every cop busy.
C19_CountdownsOrdered ==
    /\ Len(queue) >= 1
    /\ \A m \in Gaps \cup {0, INF} :
           LET q == elapse_mins(queue, m)
           IN /\ NonDecreasing(q)
              /\ ~is_available(q) => AllBusy(q)
    /\ InReplay =>
           \A i \in 1..Len(sim_hist) :
               (drivers[i].profile \in TargetSet /\ ~drivers[i].got_ticket)
                   => AllBusy(sim_hist[i].post)

\* A pool of two busy cops with different countdowns, reached as a
\* replayed driver of a targeted profile went unticketed.
C19_Witness ==
    /\ pc = "sim_loop"
    /\ Len(queue) >= 2
    /\ queue[1].mins_until_avail > 0
    /\ queue[1].mins_until_avail < queue[2].mins_until_avail
    /\ \E i \in 1..Len(sim_hist) :
          /\ drivers[i].profile \in TargetSet
          /\ ~drivers[i].got_ticket
          /\ sim_hist[i].post = queue

\* C20: whenever optimize_on_target_profiles or optimize_on_n_cops has
\* returned, target_profile is the sum of exactly the profiles of
\* target_profiles: its drivers_per_min (with no 1/INF left from the
\* DriverProfile() it was started from) and its
\* revenue_opportunity_per_hour are the sums over the target list.
C20_AggregateIsSumOfTargets ==
    (OTPReturned /\ heap[target_profiles] # <<>>) =>
        LET sum == Reduce(driver_profiles, heap[target_profiles])
        IN /\ target_profile.drivers_per_min = sum.drivers_per_min
           /\ target_profile.eps = 0
           /\ target_profile.revenue_opportunity_per_hour
                  = sum.revenue_opportunity_per_hour

====
